---- MODULE Spec2Model ----
(***************************************************************************)
(* Empirical return periods and annual exceedance probabilities of daily   *)
(* precipitation, as computed by the two notebooks of the repository:      *)
(*   - the synthetic-precipitation notebook (src/unnamed/part_000): wet    *)
(*     subset, wet-day probability, ranking, return period, per-event      *)
(*     probability, annual exceedance probability;                         *)
(*   - the Tenerife notebook (precipitation_Tenerife_extrem_value_         *)
(*     analysis.ipynb): wet subset, wet-day probability, return period of  *)
(*     a threshold under a fitted distribution.                            *)
(* Each code cell is one action; the cells of a notebook run in order and  *)
(* a cell that raises stops the run.                                       *)
(*                                                                         *)
(* Numbers: the notebooks compute in binary floating point; the model      *)
(* computes the same expressions in exact rational arithmetic (a fraction  *)
(* is a pair <<numerator, denominator>>, the 365th powers are computed on  *)
(* multi-limb naturals).  Rounding is not modelled.  A division of a numpy *)
(* float by zero yields inf; a division of Python ints by zero raises.     *)
(***************************************************************************)
EXTENDS Integers, Sequences, FiniteSets, TLC

(* ------------------------------ bounds --------------------------------- *)
\* longest observation series explored
MaxLen == 3
\* largest precipitation amount explored (amounts range over -1..MaxAmount)
MaxAmount == 2
\* the fitted survival function is explored on the grid 0/ProbGrid..ProbGrid/ProbGrid
ProbGrid == 4

Amounts == (0 - 1)..MaxAmount

(* ------------------------- program constants --------------------------- *)
\* df.precipitation > 0
WetThreshold == 0
\* daily_mean > 0.5, with the Tenerife amounts counted in units of 0.5 mm
WetThresholdTenerife == 1
\* exponent of the annualisation
DaysPerYear == 365

(* --------------------- exact arithmetic: fractions --------------------- *)
\* a / b on two integers, b # 0 (true division)
TrueDiv(a, b) == <<a, b>>
\* 1 / x for a fraction x # 0
Reciprocal(x) == <<x[2], x[1]>>
\* x * y
RatMul(x, y) == <<x[1] * y[1], x[2] * y[2]>>
\* 1 - x
OneMinus(x) == <<x[2] - x[1], x[2]>>
\* comparisons of fractions with positive denominators
RatEq(x, y) == x[1] * y[2] = y[1] * x[2]
RatLeq(x, y) == x[1] * y[2] <= y[1] * x[2]
RatLess(x, y) == x[1] * y[2] < y[1] * x[2]

(* ------------------ exact arithmetic: multi-limb naturals -------------- *)
\* a natural is a sequence of limbs, least significant first
LimbBase == 2 ^ 15

RECURSIVE BigMulCarry(_, _, _, _, _)
\* limbs lo..hi of s * k with carry-in cin: the product limbs and the carry-out
BigMulCarry(s, k, lo, hi, cin) ==
  IF lo = hi
  THEN LET t == s[lo] * k + cin
       IN [l |-> <<t % LimbBase>>, c |-> t \div LimbBase]
  ELSE LET mid == (lo + hi) \div 2
           L == BigMulCarry(s, k, lo, mid, cin)
           H == BigMulCarry(s, k, mid + 1, hi, L.c)
       IN [l |-> L.l \o H.l, c |-> H.c]

\* s * k for a natural s and 0 <= k < LimbBase
BigMulSmall(s, k) ==
  LET r == BigMulCarry(s, k, 1, Len(s), 0)
  IN IF r.c = 0 THEN r.l ELSE Append(r.l, r.c)

RECURSIVE BigTimes(_, _, _)
\* s * k^c
BigTimes(s, k, c) ==
  IF c = 0 THEN s
  ELSE IF c = 1 THEN BigMulSmall(s, k)
  ELSE LET h == c \div 2
           first == BigTimes(s, k, h)
       IN IF Len(first) > 0 THEN BigTimes(first, k, c - h) ELSE <<>>

RECURSIVE ChunkExponent(_, _)
\* the largest c' >= c with k^c' < LimbBase, given k^c < LimbBase and k >= 2
ChunkExponent(k, c) ==
  IF k ^ (c + 1) < LimbBase THEN ChunkExponent(k, c + 1) ELSE c

\* k^n as a natural, 0 <= k < LimbBase: multiplies by k^c, a single limb, as
\* long as it can, then by k
BigPow(k, n) ==
  IF k < 2 THEN <<k ^ n>>
  ELSE LET c == ChunkExponent(k, 1)
       IN BigTimes(BigTimes(<<1>>, k ^ c, n \div c), k, n % c)

\* limb i of s, zero beyond its length
Limb(s, i) == IF i <= Len(s) THEN s[i] ELSE 0

RECURSIVE BigCmp(_, _, _, _)
\* sign of a - b over limbs lo..hi (most significant limbs decide)
BigCmp(a, b, lo, hi) ==
  IF lo > hi THEN 0
  ELSE IF lo = hi
  THEN (IF Limb(a, lo) < Limb(b, lo) THEN 0 - 1
        ELSE IF Limb(a, lo) > Limb(b, lo) THEN 1 ELSE 0)
  ELSE LET mid == (lo + hi) \div 2
           high == BigCmp(a, b, mid + 1, hi)
       IN IF high # 0 THEN high ELSE BigCmp(a, b, lo, mid)

BigMaxLen(a, b) == IF Len(a) >= Len(b) THEN Len(a) ELSE Len(b)
BigLeq(a, b) == BigCmp(a, b, 1, BigMaxLen(a, b)) <= 0
BigLess(a, b) == BigCmp(a, b, 1, BigMaxLen(a, b)) < 0
BigEq(a, b) == BigCmp(a, b, 1, BigMaxLen(a, b)) = 0
BigIsZero(a) == \A i \in 1..Len(a) : a[i] = 0

RECURSIVE BigSubBorrow(_, _, _, _, _)
\* limbs lo..hi of a - b with borrow-in bin: the limbs and the borrow-out
BigSubBorrow(a, b, lo, hi, bin) ==
  IF lo = hi
  THEN LET t == Limb(a, lo) - Limb(b, lo) - bin
       IN IF t < 0 THEN [l |-> <<t + LimbBase>>, c |-> 1]
                   ELSE [l |-> <<t>>, c |-> 0]
  ELSE LET mid == (lo + hi) \div 2
           L == BigSubBorrow(a, b, lo, mid, bin)
           H == BigSubBorrow(a, b, mid + 1, hi, L.c)
       IN [l |-> L.l \o H.l, c |-> H.c]

\* a - b for naturals a >= b (as many limbs as a)
BigSub(a, b) == BigSubBorrow(a, b, 1, Len(a), 0).l

(* ------------------- exact arithmetic: big fractions ------------------- *)
\* a big fraction is [neg, num, den]: the value -num/den if neg, else num/den
\* the powers k^DaysPerYear of the numerators and denominators that occur,
\* computed once
TabulatedBase == (MaxLen + 1) * (MaxLen + ProbGrid)
AnnualPowers == [k \in 0..TabulatedBase |-> BigPow(k, DaysPerYear)]
\* x ** n for a fraction x >= 0
RatPow(x, n) ==
  LET pow(k) == IF n = DaysPerYear /\ k \in DOMAIN AnnualPowers
                THEN AnnualPowers[k] ELSE BigPow(k, n)
  IN [neg |-> FALSE, num |-> pow(x[1]), den |-> pow(x[2])]
\* 1 - y for a big fraction y >= 0
BigOneMinus(y) ==
  IF BigLeq(y.num, y.den)
  THEN [neg |-> FALSE, num |-> BigSub(y.den, y.num), den |-> y.den]
  ELSE [neg |-> TRUE, num |-> BigSub(y.num, y.den), den |-> y.den]
\* the float inf, and the float 0.0 that 1 / inf gives
Inf == [neg |-> FALSE, num |-> <<1>>, den |-> <<0>>]
BigZero == [neg |-> FALSE, num |-> <<0>>, den |-> <<1>>]
IsInf(y) == BigIsZero(y.den)
\* 1 / y on numpy floats, y >= 0: a division by zero warns and yields inf
BigReciprocal(y) ==
  IF IsInf(y) THEN BigZero
  ELSE IF BigIsZero(y.num) THEN Inf
  ELSE [neg |-> y.neg, num |-> y.den, den |-> y.num]
\* comparisons of finite big fractions, decided for fractions over the same
\* denominator and against zero and one (FALSE otherwise)
BigRatIsZero(y) == BigIsZero(y.num) /\ ~BigIsZero(y.den)
BigRatEq(x, y) ==
  \/ BigEq(x.den, y.den) /\ BigEq(x.num, y.num) /\ (x.neg = y.neg \/ BigIsZero(x.num))
  \/ BigRatIsZero(x) /\ BigRatIsZero(y)
BigRatLeq(x, y) ==
  /\ BigEq(x.den, y.den)
  /\ ~BigIsZero(x.den)
  /\ IF x.neg /\ y.neg THEN BigLeq(y.num, x.num)
     ELSE IF x.neg THEN TRUE
     ELSE IF y.neg THEN BigIsZero(x.num) /\ BigIsZero(y.num)
     ELSE BigLeq(x.num, y.num)
BigRatLess(x, y) == BigRatLeq(x, y) /\ ~BigRatEq(x, y)
\* 0 <= y, 0 < y and y <= 1 for a finite big fraction
BigRatNonNegative(y) == ~BigIsZero(y.den) /\ (~y.neg \/ BigIsZero(y.num))
BigRatPositive(y) == ~BigIsZero(y.den) /\ ~y.neg /\ ~BigIsZero(y.num)
BigRatAtMostOne(y) == ~BigIsZero(y.den) /\ (y.neg \/ BigLeq(y.num, y.den))

(* ------------------------------- state --------------------------------- *)
VARIABLES
  pc,                 \* the cell that runs next; "done" at the end, "stopped" after a raise
  raised,             \* the exception that stopped the run, "" if none
  \* synthetic-precipitation notebook
  df,                 \* the observation series: records [day, precipitation]
  dfwet,              \* the rows of df with precipitation > 0, in the order of df
  n_days,
  n_wet_days,
  p_wetdays,
  df_sorted,          \* dfwet sorted, with rank, return_period, probability
  probability_annual_exceedance,
  \* Tenerife notebook
  daily_mean,         \* the daily precipitation of the grid cell
  daily_mean_wet,
  n_all,
  n_wet,
  p_wet,
  p_daily,
  p_annual,
  return_period_model

simVars == <<df, dfwet, n_days, n_wet_days, p_wetdays, df_sorted,
             probability_annual_exceedance>>
tenerifeVars == <<daily_mean, daily_mean_wet, n_all, n_wet, p_wet, p_daily,
                  p_annual, return_period_model>>
vars == <<pc, raised, simVars, tenerifeVars>>

\* a name that no cell has assigned yet
Unassigned == <<>>

\* all series of amounts of length 0..MaxLen
AmountSeries == UNION {[1..k -> Amounts] : k \in 0..MaxLen}

(* ---------------- synthetic-precipitation notebook --------------------- *)
\* pd.DataFrame({'day': range(1, size + 1), 'precipitation': precipitation})
DataFrame(precipitation) ==
  [i \in 1..Len(precipitation) |-> [day |-> i, precipitation |-> precipitation[i]]]

\* df[df.precipitation > 0]: boolean-mask selection keeps the order of df
\* slip: the comparison written >= keeps the dry days
WetRowInclusive(row) == row.precipitation >= WetThreshold
WetRow(row) == row.precipitation > WetThreshold
WetSubset(frame) == SelectSeq(frame, WetRow)

\* the row orders sort_values('precipitation', ascending=False) can return:
\* the default sort kind is not stable, so rows with equal amounts may come
\* out in any order
RowOrders(n) == {o \in [1..n -> 1..n] : \A i, j \in 1..n : i # j => o[i] # o[j]}
\* slip: ascending=False left out
AscendingOrders(frame) ==
  {o \in RowOrders(Len(frame)) :
     \A i, j \in 1..Len(frame) :
        i < j => frame[o[i]].precipitation <= frame[o[j]].precipitation}
DescendingOrders(frame) ==
  {o \in RowOrders(Len(frame)) :
     \A i, j \in 1..Len(frame) :
        i < j => frame[o[i]].precipitation >= frame[o[j]].precipitation}

\* slip: np.arange(n), ranks from 0
Arange0(n) == [i \in 1..n |-> i - 1]
\* np.arange(1, n + 1)
Arange1(n) == [i \in 1..n |-> i]

\* slip: n_wet_days / rank
ReturnPeriodNoPlusOne(nwet, rank) == TrueDiv(nwet, rank)
\* slip: rank / (n_wet_days + 1), the probability in place of the period
ReturnPeriodInverted(nwet, rank) == TrueDiv(rank, nwet + 1)
\* slip: (n_wet_days + 1) * rank
ReturnPeriodTimesRank(nwet, rank) == TrueDiv((nwet + 1) * rank, 1)
\* (n_wet_days + 1) / rank
ReturnPeriod(nwet, rank) == TrueDiv(nwet + 1, rank)
\* 1 / return_period
Probability(return_period) == Reciprocal(return_period)

\* slip: the leading "1 -" left out
AnnualExceedanceComplement(probability, pwet) ==
  RatPow(OneMinus(RatMul(probability, pwet)), DaysPerYear)
\* 1 - (1 - (probability * p_wetdays)) ** 365
AnnualExceedance(probability, pwet) ==
  BigOneMinus(RatPow(OneMinus(RatMul(probability, pwet)), DaysPerYear))

InitSim ==
  /\ pc = "extract"
  /\ raised = ""
  /\ \E amounts \in AmountSeries : df = DataFrame(amounts)
  /\ dfwet = Unassigned
  /\ n_days = Unassigned
  /\ n_wet_days = Unassigned
  /\ p_wetdays = Unassigned
  /\ df_sorted = Unassigned
  /\ probability_annual_exceedance = Unassigned
  /\ daily_mean = Unassigned
  /\ daily_mean_wet = Unassigned
  /\ n_all = Unassigned
  /\ n_wet = Unassigned
  /\ p_wet = Unassigned
  /\ p_daily = Unassigned
  /\ p_annual = Unassigned
  /\ return_period_model = Unassigned

\* cell "Extracting Rainfall Days and Computing Probabilities"
ExtractWet ==
  /\ pc = "extract"
  /\ dfwet' = WetSubset(df)
  /\ n_days' = <<Len(df)>>
  /\ n_wet_days' = <<Len(dfwet')>>
  /\ IF Len(df) = 0
     THEN /\ raised' = "ZeroDivisionError"
          /\ pc' = "stopped"
          /\ p_wetdays' = p_wetdays
     ELSE /\ p_wetdays' = TrueDiv(Len(dfwet'), Len(df))
          /\ pc' = "rank"
          /\ raised' = raised
  /\ UNCHANGED <<df, df_sorted, probability_annual_exceedance, tenerifeVars>>

\* slip: the wet subset sorted and annotated in place
\* (sort_values(..., inplace=True) and the inserts made on dfwet)
RankReturnPeriodInPlace ==
  /\ pc = "rank"
  /\ \E o \in DescendingOrders(dfwet) :
       LET n == n_wet_days[1]
           rank == Arange1(n)
       IN df_sorted' =
            [i \in 1..n |->
               LET return_period == ReturnPeriod(n, rank[i])
               IN [day |-> dfwet[o[i]].day,
                   precipitation |-> dfwet[o[i]].precipitation,
                   rank |-> rank[i],
                   return_period |-> return_period,
                   probability |-> Probability(return_period)]]
  /\ dfwet' = df_sorted'
  /\ pc' = "annual"
  /\ UNCHANGED <<raised, df, n_days, n_wet_days, p_wetdays,
                 probability_annual_exceedance, tenerifeVars>>

\* cell "Return Period Analysis"
RankReturnPeriod ==
  /\ pc = "rank"
  /\ \E o \in DescendingOrders(dfwet) :
       LET n == n_wet_days[1]
           rank == Arange1(n)
       IN df_sorted' =
            [i \in 1..n |->
               LET return_period == ReturnPeriod(n, rank[i])
               IN [day |-> dfwet[o[i]].day,
                   precipitation |-> dfwet[o[i]].precipitation,
                   rank |-> rank[i],
                   return_period |-> return_period,
                   probability |-> Probability(return_period)]]
  /\ pc' = "annual"
  /\ UNCHANGED <<raised, df, dfwet, n_days, n_wet_days, p_wetdays,
                 probability_annual_exceedance, tenerifeVars>>

\* cell "Annual Exceedance Probability"
AnnualExceedanceCell ==
  /\ pc = "annual"
  /\ probability_annual_exceedance' =
       [i \in 1..Len(df_sorted) |->
          AnnualExceedance(df_sorted[i].probability, p_wetdays)]
  /\ pc' = "done"
  /\ UNCHANGED <<raised, df, dfwet, n_days, n_wet_days, p_wetdays, df_sorted,
                 tenerifeVars>>

Next == ExtractWet \/ RankReturnPeriod \/ AnnualExceedanceCell

Spec == InitSim /\ [][Next]_vars

(* -------------------------- Tenerife notebook -------------------------- *)
\* daily_mean[(daily_mean > 0.5)]
WetDay(amount) == amount > WetThresholdTenerife
WetDays(series) == SelectSeq(series, WetDay)

\* the values 1 - gamma(shape, loc, scale).cdf(event_threshold) can take: the
\* fit is the statistics library's; a survival probability lies in [0, 1]
\* and is 0.0 when the fitted cdf rounds to 1 at the threshold
SurvivalValues == {TrueDiv(k, ProbGrid) : k \in 0..ProbGrid}

\* 1 - (1 - p_daily*p_wet)**365
AnnualProbability(pdaily, pwet) ==
  BigOneMinus(RatPow(OneMinus(RatMul(pdaily, pwet)), DaysPerYear))

\* slip: the annual probability reported as the return period
ModelReturnPeriodNoInverse(pannual) == pannual
\* 1/p_annual
ModelReturnPeriod(pannual) == BigReciprocal(pannual)

\* the series of the selected grid cell; the cells before the ones modelled
\* here raise on an empty series (daily_mean.max() of a zero-size array)
InitTenerife ==
  /\ pc = "filter"
  /\ raised = ""
  /\ daily_mean \in AmountSeries \ {<<>>}
  /\ daily_mean_wet = Unassigned
  /\ n_all = Unassigned
  /\ n_wet = Unassigned
  /\ p_wet = Unassigned
  /\ p_daily = Unassigned
  /\ p_annual = Unassigned
  /\ return_period_model = Unassigned
  /\ df = Unassigned
  /\ dfwet = Unassigned
  /\ n_days = Unassigned
  /\ n_wet_days = Unassigned
  /\ p_wetdays = Unassigned
  /\ df_sorted = Unassigned
  /\ probability_annual_exceedance = Unassigned

\* cell "Gamma Distribution Fit to Precipitation Data", the wet-day filter
FilterWet ==
  /\ pc = "filter"
  /\ daily_mean_wet' = WetDays(daily_mean)
  /\ pc' = "return_period"
  /\ UNCHANGED <<raised, daily_mean, n_all, n_wet, p_wet, p_daily, p_annual,
                 return_period_model, simVars>>

\* cell "Estimating Return Period Using the Fitted Gamma Distribution"
ReturnPeriodModel ==
  /\ pc = "return_period"
  /\ n_all' = <<Len(daily_mean)>>
  /\ n_wet' = <<Len(daily_mean_wet)>>
  /\ p_wet' = TrueDiv(Len(daily_mean_wet), Len(daily_mean))
  /\ p_daily' \in SurvivalValues
  /\ p_annual' = AnnualProbability(p_daily', p_wet')
  /\ return_period_model' = ModelReturnPeriod(p_annual')
  /\ pc' = "done"
  /\ UNCHANGED <<raised, daily_mean, daily_mean_wet, simVars>>

NextTenerife == FilterWet \/ ReturnPeriodModel

SpecTenerife == InitTenerife /\ [][NextTenerife]_vars

(* ----------------------------- both notebooks -------------------------- *)
InitNotebooks == InitSim \/ InitTenerife
NextNotebooks == Next \/ NextTenerife
SpecNotebooks == InitNotebooks /\ [][NextNotebooks]_vars

(* ============================ properties =============================== *)
\* the ranking cell has run
Ranked == pc \in {"annual", "done"}
\* the observations of df that are wet, and their number N_wet
WetIndices == {i \in 1..Len(df) : df[i].precipitation > WetThreshold}
NWet == Cardinality(WetIndices)
\* the (day, amount) pair of a ranked record
Observation(r) == [day |-> r.day, precipitation |-> r.precipitation]
\* q(i) = p(i) * p_wet of the i-th ranked record
DailyExceedance(i) == RatMul(df_sorted[i].probability, p_wetdays)

\* the error outcomes the specification names
ExplicitErrors == {"InvalidInput", "NoWetObservations"}

\* C1: an input without a wet observation (N_wet = 0, or N = 0) ends in an
\* explicit invalid-input / no-wet-observations error: the run never
\* completes with an (empty) result and never stops on a ZeroDivisionError.
C1_NoWetObservationsRejected ==
  (NWet = 0 /\ pc # "extract") =>
     /\ pc = "stopped"
     /\ raised \in ExplicitErrors

\* C2: an input with a negative amount is rejected as a whole with
\* DomainAssumptionViolated and yields no ranked records; the wetness filter
\* never silently drops the negative amount.
C2_NegativeAmountRejected ==
  ((\E i \in 1..Len(df) : df[i].precipitation < 0) /\ pc # "extract") =>
     /\ pc = "stopped"
     /\ raised = "DomainAssumptionViolated"
     /\ df_sorted = Unassigned

\* reference: stable descending sort by amount (insertion after every row
\* that is at least as large)
InsertStable(t, r) ==
  LET k == Cardinality({i \in 1..Len(t) : t[i].precipitation >= r.precipitation})
  IN SubSeq(t, 1, k) \o <<r>> \o SubSeq(t, k + 1, Len(t))
RECURSIVE StableSortDescending(_)
StableSortDescending(t) ==
  IF Len(t) = 0 THEN <<>>
  ELSE InsertStable(StableSortDescending(SubSeq(t, 1, Len(t) - 1)), t[Len(t)])
\* the wet observations of df in input order
WetObservations == SelectSeq(df, LAMBDA row : row.precipitation > WetThreshold)

C4_RanksArePermutation ==
  (Ranked /\ NWet >= 1) =>
    /\ Len(df_sorted) = NWet
    /\ {df_sorted[i].rank : i \in 1..Len(df_sorted)} = 1..NWet
    /\ \A i, j \in 1..Len(df_sorted) :
         i # j => df_sorted[i].rank # df_sorted[j].rank

\* ranked records with two equal amounts
C4_Witness ==
  /\ Ranked
  /\ \E i, j \in 1..Len(df_sorted) :
       /\ i # j
       /\ df_sorted[i].precipitation = df_sorted[j].precipitation
       /\ df_sorted[i].rank + 1 = df_sorted[j].rank

\* C5: the record of rank m has return period (N_wet + 1) / m and per-event
\* probability m / (N_wet + 1), N_wet counting the wet observations only.
C5_WeibullPlottingPosition ==
  Ranked =>
    \A i \in 1..Len(df_sorted) :
      LET m == df_sorted[i].rank
      IN /\ 1 <= m /\ m <= NWet
         /\ RatEq(df_sorted[i].return_period, <<NWet + 1, m>>)
         /\ RatEq(df_sorted[i].probability, <<m, NWet + 1>>)

\* ranked records of a series that also has dry observations
C5_Witness ==
  /\ Ranked
  /\ Len(df_sorted) >= 2
  /\ Len(df) > Len(df_sorted)

\* C6: the return period does not increase from one rank to the next, is
\* N_wet + 1 at rank 1 and (N_wet + 1) / N_wet at rank N_wet.
C6_ReturnPeriodChain ==
  Ranked =>
    /\ \A i, j \in 1..Len(df_sorted) :
         df_sorted[i].rank + 1 = df_sorted[j].rank =>
           RatLeq(df_sorted[j].return_period, df_sorted[i].return_period)
    /\ \A i \in 1..Len(df_sorted) :
         /\ df_sorted[i].rank = 1 =>
              RatEq(df_sorted[i].return_period, <<NWet + 1, 1>>)
         /\ df_sorted[i].rank = NWet =>
              RatEq(df_sorted[i].return_period, <<NWet + 1, NWet>>)

\* three ranked records: both ends and a middle rank
C6_Witness ==
  /\ Ranked
  /\ Len(df_sorted) >= 3

\* C7 (as stated): the return period is non-decreasing as the rank increases.
C7_ReturnPeriodNonDecreasing ==
  Ranked =>
    \A i, j \in 1..Len(df_sorted) :
      df_sorted[i].rank < df_sorted[j].rank =>
        RatLeq(df_sorted[i].return_period, df_sorted[j].return_period)

\* C7 (amended): the return period is non-increasing as the rank increases:
\* for every m < m', tau(m) >= tau(m').
C7_ReturnPeriodNonIncreasing ==
  Ranked =>
    \A i, j \in 1..Len(df_sorted) :
      df_sorted[i].rank < df_sorted[j].rank =>
        RatLeq(df_sorted[j].return_period, df_sorted[i].return_period)

\* two ranked records whose return periods differ
C7_Witness ==
  /\ Ranked
  /\ \E i, j \in 1..Len(df_sorted) :
       /\ df_sorted[i].rank < df_sorted[j].rank
       /\ RatLess(df_sorted[j].return_period, df_sorted[i].return_period)

\* the number of wet days of the Tenerife series
NWetTenerife ==
  Cardinality({i \in 1..Len(daily_mean) : daily_mean[i] > WetThresholdTenerife})

\* C8: for N >= 1 and N_wet >= 1, p_wet = N_wet / N with N_wet <= N and
\* 0 <= p_wet <= 1 (in either notebook), and every ranked record has per-event
\* probability in (0, 1] and annualized probability in (0, 1].
C8_ProbabilitiesInRange ==
  /\ (pc = "done" /\ Len(df) >= 1 /\ NWet >= 1) =>
       /\ RatEq(p_wetdays, <<NWet, Len(df)>>)
       /\ NWet <= Len(df)
       /\ RatLeq(<<0, 1>>, p_wetdays) /\ RatLeq(p_wetdays, <<1, 1>>)
       /\ Len(probability_annual_exceedance) = Len(df_sorted)
       /\ \A i \in 1..Len(df_sorted) :
            /\ RatLess(<<0, 1>>, df_sorted[i].probability)
            /\ RatLeq(df_sorted[i].probability, <<1, 1>>)
            /\ BigRatPositive(probability_annual_exceedance[i])
            /\ BigRatAtMostOne(probability_annual_exceedance[i])
  /\ (pc = "done" /\ Len(daily_mean) >= 1 /\ NWetTenerife >= 1) =>
       /\ RatEq(p_wet, <<NWetTenerife, Len(daily_mean)>>)
       /\ NWetTenerife <= Len(daily_mean)
       /\ RatLeq(<<0, 1>>, p_wet) /\ RatLeq(p_wet, <<1, 1>>)

\* a finished run over a series with dry and wet observations
C8_Witness ==
  /\ pc = "done"
  /\ NWet >= 2
  /\ Len(df) > NWet

\* C9: within a result, the annualized probability does not decrease when
\* p(m) * p_wet increases, hence does not decrease with the rank, and lies in
\* [0, 1].
C9_AnnualMonotoneBounded ==
  pc = "done" =>
    /\ \A i, j \in 1..Len(df_sorted) :
         RatLeq(DailyExceedance(i), DailyExceedance(j)) =>
           BigRatLeq(probability_annual_exceedance[i],
                     probability_annual_exceedance[j])
    /\ \A i, j \in 1..Len(df_sorted) :
         df_sorted[i].rank < df_sorted[j].rank =>
           BigRatLeq(probability_annual_exceedance[i],
                     probability_annual_exceedance[j])
    /\ \A i \in 1..Len(df_sorted) :
         /\ BigRatNonNegative(probability_annual_exceedance[i])
         /\ BigRatAtMostOne(probability_annual_exceedance[i])

\* a finished run with two records whose annualized probabilities differ
C9_Witness ==
  /\ pc = "done"
  /\ \E i, j \in 1..Len(df_sorted) :
       /\ RatLess(DailyExceedance(i), DailyExceedance(j))
       /\ BigRatLess(probability_annual_exceedance[i],
                     probability_annual_exceedance[j])

SeriesColumns == {"day", "precipitation"}

\* C11: the cells leave the observation series as it was (same length, same
\* (day, amount) pairs in the same order), and once the wet subset is
\* extracted the ranking and annualisation leave it as it was: rank, return
\* period and probability are columns of the sorted copy only.
C11_SeriesAndWetSubsetUnchanged ==
  [][/\ df' = df
     /\ \A i \in 1..Len(df') : DOMAIN df'[i] = SeriesColumns
     /\ pc # "extract" =>
          /\ dfwet' = dfwet
          /\ \A i \in 1..Len(dfwet') : DOMAIN dfwet'[i] = SeriesColumns]_vars

\* the ranking has reordered the wet subset of a series that also has dry
\* observations, and the unsorted wet subset is still in input order
C11_Witness ==
  /\ pc = "done"
  /\ Len(dfwet) < Len(df)
  /\ \E i \in 1..Len(df_sorted) : df_sorted[i].day # dfwet[i].day
  /\ \A i, j \in 1..Len(dfwet) : i < j => dfwet[i].day < dfwet[j].day

====
